---- MODULE Spec2Model ----
(***************************************************************************)
(* Model of the django-uni-form template tags (uni_form_tags.py): the      *)
(* compile functions do_uni_form, do_uni_form_set and uni_form_jquery, the *)
(* render methods of the nodes they build, and the uni_form_setup          *)
(* inclusion tag, run against one rendering context.                       *)
(*                                                                         *)
(* Python values are records tagged by "kind"; a Python exception is the   *)
(* field "raised" of an operator's result ("" when nothing was raised).    *)
(* Markup is a sequence of strings, the empty string is <<>>.              *)
(***************************************************************************)
EXTENDS Integers, Sequences, FiniteSets, TLC

\* ---------------------------------------------------------------- bounds
\* number of sub-forms of the formset in the context
NumForms == 2
\* number of fields of TestForm that the forms of the model carry
NumFields == 2

\* ---------------------------------------------------------- Python values
None == [kind |-> "None"]
PyStr(s) == [kind |-> "str", s |-> s]

\* ------------------------------------------------------- forms and fields
TestFormFields == <<"is_company", "email", "password1", "password2",
                    "first_name", "last_name">>
FieldNames == SubSeq(TestFormFields, 1, NumFields)
PrefixDigits == <<"0", "1", "2", "3", "4", "5">>

\* a form object; prefix "" for a stand-alone form, "form-<i>" in a formset
Form(prefix) == [kind |-> "form", prefix |-> prefix]
AutoId(form, name) ==
    IF form.prefix = "" THEN "id_" \o name
    ELSE "id_" \o form.prefix \o "-" \o name
\* iterating a form yields its bound fields in declaration order
Fields(form) ==
    [i \in 1..Len(FieldNames) |->
        [name |-> FieldNames[i], auto_id |-> AutoId(form, FieldNames[i])]]
TestForm == Form("")
TestFormset ==
    [kind |-> "formset",
     forms |-> [i \in 1..NumForms |-> Form("form-" \o PrefixDigits[i])]]

\* ------------------------------------------------------ helpers, layouts
Fieldset(legend, children) ==
    [kind |-> "Fieldset", legend |-> legend, fields |-> children]
Row(names) == [kind |-> "Row", fields |-> names]
HTML(html) == [kind |-> "HTML", html |-> html]
FieldRef(name) == [kind |-> "field", name |-> name]
Layout(fieldsets) == [kind |-> "Layout", fields |-> fieldsets]

\* the layout of TestLayout.setUp
TestLayout ==
    Layout(<<Fieldset("", <<FieldRef("is_company")>>),
             Fieldset("Contact details",
                      <<FieldRef("email"), Row(<<"password1", "password2">>),
                        FieldRef("first_name"), FieldRef("last_name")>>)>>)
StyleLayout ==
    Layout(<<Fieldset("", <<HTML("<style>.formRow{color:red;}</style>"),
                            FieldRef("email"), FieldRef("is_company")>>)>>)
Layouts == {TestLayout, StyleLayout}

HelperAttributes ==
    {"form_id", "form_class", "form_method", "form_action", "inputs",
     "toggle_fields"}
Submit(name, value) == [kind |-> "Submit", name |-> name, value |-> value]
Reset(name, value) == [kind |-> "Reset", name |-> name, value |-> value]

\* a FormHelper: "set" names the attributes its author supplied
FormHelper(set, toggle, layout) ==
    [kind |-> "FormHelper", set |-> set,
     form_id |-> "this-form-rocks", form_class |-> "forms-that-rock",
     form_method |-> "GET", form_action |-> "/submit/",
     inputs |-> <<Submit("my-submit", "Submit"), Reset("my-reset", "Reset")>>,
     toggle_fields |-> toggle, layout |-> layout]

\* FormHelper.get_attr: the attributes that are set, under the keys the
\* templates use; attributes that are not set are omitted
AttrKey(a) ==
    CASE a = "form_id" -> "id"
      [] a = "form_class" -> "class"
      [] OTHER -> a
get_attr(helper) ==
    [k \in {AttrKey(a) : a \in helper.set} |->
        CASE k = "id" -> helper.form_id
          [] k = "class" -> helper.form_class
          [] k = "form_method" -> helper.form_method
          [] k = "form_action" -> helper.form_action
          [] k = "inputs" -> helper.inputs
          [] k = "toggle_fields" -> helper.toggle_fields]

\* markup of one field, by name; a name the form does not have is skipped
render_field(form, name) ==
    IF \E i \in 1..Len(FieldNames) : FieldNames[i] = name
    THEN <<"<div id=\"div_" \o AutoId(form, name) \o "\">">>
    ELSE <<>>
RECURSIVE render_row(_, _)
render_row(form, names) ==
    IF names = <<>> THEN <<>>
    ELSE render_field(form, Head(names)) \o render_row(form, Tail(names))
render_child(form, child) ==
    CASE child.kind = "field" -> render_field(form, child.name)
      [] child.kind = "Row" ->
            <<"<div class=\"formRow\">">> \o render_row(form, child.fields)
                \o <<"</div>">>
      [] child.kind = "HTML" -> <<child.html>>
RECURSIVE render_children(_, _)
render_children(form, children) ==
    IF children = <<>> THEN <<>>
    ELSE render_child(form, Head(children))
            \o render_children(form, Tail(children))
render_fieldset(form, fieldset) ==
    <<"<fieldset>">>
        \o (IF fieldset.legend = "" THEN <<>>
            ELSE <<"<legend>" \o fieldset.legend \o "</legend>">>)
        \o render_children(form, fieldset.fields)
        \o <<"</fieldset>">>
RECURSIVE render_fieldsets(_, _)
render_fieldsets(form, fieldsets) ==
    IF fieldsets = <<>> THEN <<>>
    ELSE render_fieldset(form, Head(fieldsets))
            \o render_fieldsets(form, Tail(fieldsets))
\* FormHelper.render_layout: the layout walked against the form
render_layout(helper, form) ==
    IF helper.layout = None THEN <<>>
    ELSE render_fieldsets(form, helper.layout.fields)

\* -------------------------------------------------- template.Variable
\* template.Variable(var): the constructor takes a string; float(None)
\* raises TypeError, which the constructor does not catch
Variable(var) ==
    IF var = None THEN [raised |-> "TypeError"]
    ELSE [raised |-> "", kind |-> "Variable", var |-> var.s]
\* Variable.resolve(context): the lookup fails with VariableDoesNotExist
Resolvable(variable, ctx) == variable.var \in DOMAIN ctx
resolve(variable, ctx) == ctx[variable.var]

\* Python truth value of a resolved helper: None is false, an object true
Truthy(value) == value # None

\* ------------------------------------------------------------- the nodes
\* dict.get(key, default)
Get(attrs, key, default) == IF key \in DOMAIN attrs THEN attrs[key] ELSE default

\* HelperHandlerNode.__init__ and the __init__ of its subclasses: the form
\* (formset) variable first, then the helper variable
Node(kind, form, helper) ==
    LET form_var == Variable(form)
        helper_var == Variable(helper)
    IN  IF form_var.raised # "" THEN [raised |-> form_var.raised, node |-> None]
        ELSE IF helper_var.raised # ""
        THEN [raised |-> helper_var.raised, node |-> None]
        ELSE IF kind = "UniFormsetNode"
        THEN [raised |-> "",
              node |-> [kind |-> kind, formset |-> form_var,
                        helper |-> helper_var]]
        ELSE [raised |-> "",
              node |-> [kind |-> kind, form |-> form_var,
                        helper |-> helper_var]]

\* the body shared by do_uni_form, do_uni_form_set and uni_form_jquery:
\* token.pop(1) is the form, a second token.pop(1) the helper or None
compile(kind, token) ==
    IF Len(token) < 2 THEN [raised |-> "IndexError", node |-> None]
    ELSE LET form == PyStr(token[2])
             helper == IF Len(token) >= 3 THEN PyStr(token[3]) ELSE None
         IN  Node(kind, form, helper)
do_uni_form(token) == compile("UniFormNode", token)
do_uni_form_set(token) == compile("UniFormsetNode", token)
uni_form_jquery(token) == compile("UniFormJqueryNode", token)

\* fault variant: the method defaults to GET
get_response_context_default_get(helper_attrs) ==
    [form_action |-> Get(helper_attrs, "form_action", ""),
     form_method |-> Get(helper_attrs, "form_method", "GET"),
     attrs |-> helper_attrs,
     form_class |-> Get(helper_attrs, "class", ""),
     form_id |-> Get(helper_attrs, "id", ""),
     inputs |-> Get(helper_attrs, "inputs", <<>>)]
HelperHandlerNode_get_response_context(helper_attrs) ==
    [form_action |-> Get(helper_attrs, "form_action", ""),
     form_method |-> Get(helper_attrs, "form_method", "POST"),
     attrs |-> helper_attrs,
     form_class |-> Get(helper_attrs, "class", ""),
     form_id |-> Get(helper_attrs, "id", ""),
     inputs |-> Get(helper_attrs, "inputs", <<>>)]

\* fault variant: matching fields are inserted at the front
RECURSIVE toggle_loop_prepend(_, _, _)
toggle_loop_prepend(fields, toggle_fields, final_toggle_fields) ==
    IF fields = <<>> THEN final_toggle_fields
    ELSE toggle_loop_prepend(Tail(fields), toggle_fields,
                             IF Head(fields).auto_id \in toggle_fields
                             THEN <<Head(fields)>> \o final_toggle_fields
                             ELSE final_toggle_fields)
\* the loop of BasicNode.get_response_context over the form's fields
RECURSIVE toggle_loop(_, _, _)
toggle_loop(fields, toggle_fields, final_toggle_fields) ==
    IF fields = <<>> THEN final_toggle_fields
    ELSE toggle_loop(Tail(fields), toggle_fields,
                     IF Head(fields).auto_id \in toggle_fields
                     THEN Append(final_toggle_fields, Head(fields))
                     ELSE final_toggle_fields)

\* fault variant: the layout is never rendered
form_html_never_rendered(helper, actual_form) == <<>>
BasicNode_form_html(helper, actual_form) ==
    IF Truthy(helper) /\ Truthy(helper.layout)
    THEN render_layout(helper, actual_form)
    ELSE <<>>

\* attached: the form_html attributes the sub-forms carry (left as they are)
BasicNode_get_response_context(self, ctx, helper, helper_attrs, attached) ==
    IF ~Resolvable(self.form, ctx)
    THEN [raised |-> "VariableDoesNotExist", response |-> None,
          form_html |-> attached]
    ELSE LET actual_form == resolve(self.form, ctx)
             toggle_fields == Get(helper_attrs, "toggle_fields", {})
             final_toggle_fields ==
                 IF toggle_fields # {}
                 THEN toggle_loop(Fields(actual_form), toggle_fields, <<>>)
                 ELSE <<>>
         IN  [raised |-> "",
              response |->
                  HelperHandlerNode_get_response_context(helper_attrs)
                  @@ [form |-> actual_form,
                      toggle_fields |-> final_toggle_fields,
                      form_html |-> BasicNode_form_html(helper, actual_form)],
              form_html |-> attached]

\* fault variant: every sub-form gets the rendering of the first one
attach_first_form(helper, actual_formset, attached) ==
    IF Truthy(helper) /\ Truthy(helper.layout)
    THEN [i \in 1..Len(actual_formset.forms) |->
            render_layout(helper, actual_formset.forms[1])]
    ELSE attached
\* fault variant: without a layout the form_html attributes are removed
attach_or_clear(helper, actual_formset, attached) ==
    IF Truthy(helper) /\ Truthy(helper.layout)
    THEN [i \in 1..Len(actual_formset.forms) |->
            render_layout(helper, actual_formset.forms[i])]
    ELSE <<>>
\* the loop of BasicFormsetNode.get_response_context: form.form_html is set
\* on every sub-form when the helper has a layout
BasicFormsetNode_attach(helper, actual_formset, attached) ==
    IF Truthy(helper) /\ Truthy(helper.layout)
    THEN [i \in 1..Len(actual_formset.forms) |->
            render_layout(helper, actual_formset.forms[i])]
    ELSE attached

\* fault variant: only a non-empty toggle_fields value is rejected
rejects_when_truthy(helper_attrs) == Get(helper_attrs, "toggle_fields", {}) # {}
\* the guard of BasicFormsetNode.get_response_context
BasicFormsetNode_rejects(helper_attrs) == "toggle_fields" \in DOMAIN helper_attrs

\* fault variant: the formset is resolved and the sub-forms are rendered
\* before toggle_fields is looked at
get_response_context_reject_last(self, ctx, helper, helper_attrs, attached) ==
    IF ~Resolvable(self.formset, ctx)
    THEN [raised |-> "VariableDoesNotExist", response |-> None,
          form_html |-> attached]
    ELSE LET actual_formset == resolve(self.formset, ctx)
             rendered == BasicFormsetNode_attach(helper, actual_formset, attached)
         IN  IF BasicFormsetNode_rejects(helper_attrs)
             THEN [raised |-> "NotImplementedError", response |-> None,
                   form_html |-> rendered]
             ELSE [raised |-> "",
                   response |->
                       HelperHandlerNode_get_response_context(helper_attrs)
                       @@ [formset |-> actual_formset],
                   form_html |-> rendered]
BasicFormsetNode_get_response_context(self, ctx, helper, helper_attrs, attached) ==
    IF BasicFormsetNode_rejects(helper_attrs)
    THEN [raised |-> "NotImplementedError", response |-> None,
          form_html |-> attached]
    ELSE IF ~Resolvable(self.formset, ctx)
    THEN [raised |-> "VariableDoesNotExist", response |-> None,
          form_html |-> attached]
    ELSE LET actual_formset == resolve(self.formset, ctx)
         IN  [raised |-> "",
              response |->
                  HelperHandlerNode_get_response_context(helper_attrs)
                  @@ [formset |-> actual_formset],
              form_html |->
                  BasicFormsetNode_attach(helper, actual_formset, attached)]

\* HelperHandlerNode.get_render; get_response_context is the node's own
get_render(self, ctx, attached) ==
    IF ~Resolvable(self.helper, ctx)
    THEN [raised |-> "VariableDoesNotExist", response |-> None,
          form_html |-> attached]
    ELSE LET helper == resolve(self.helper, ctx)
             attrs == IF Truthy(helper) THEN get_attr(helper) ELSE <<>>
         IN  IF self.kind = "UniFormsetNode"
             THEN BasicFormsetNode_get_response_context(
                      self, ctx, helper, attrs, attached)
             ELSE BasicNode_get_response_context(
                      self, ctx, helper, attrs, attached)

\* settings.MEDIA_URL
settings_MEDIA_URL == PyStr("/site_media/")
\* fault variant: the setting always replaces the context's MEDIA_URL
uni_form_setup_overwrite(ctx) ==
    [k \in DOMAIN ctx \cup {"MEDIA_URL"} |->
        IF k = "MEDIA_URL" THEN settings_MEDIA_URL ELSE ctx[k]]
uni_form_setup(ctx) ==
    IF "MEDIA_URL" \notin DOMAIN ctx
    THEN ctx @@ [MEDIA_URL |-> settings_MEDIA_URL]
    ELSE ctx

\* ------------------------------------------------------------ the state
VARIABLES
    context,    \* the rendering context: variable name -> value
    form_html,  \* sub-form index -> the form_html attribute it carries
    node,       \* the node the last compile function returned, or None
    result      \* outcome of the last operation

vars == <<context, form_html, node, result>>

\* the helpers a page author may put in the context
AttributeProfiles ==
    {{}, {"form_id", "form_class", "form_method"}, {"form_action", "inputs"},
     {"form_id", "form_class", "form_method", "form_action", "inputs"}}
ToggleSets ==
    {{}, {"id_email"}, {"id_is_company", "id_email"},
     {"id_nope", "id_is_company"}}
FormHelpers ==
    {FormHelper(set, {}, layout) :
        set \in AttributeProfiles, layout \in {None, TestLayout}}
    \cup {FormHelper(set \cup {"toggle_fields"}, toggle, layout) :
            set \in AttributeProfiles, toggle \in ToggleSets,
            layout \in {None, TestLayout}}
FormsetHelpers ==
    {FormHelper({}, {}, None), FormHelper({"form_method"}, {}, StyleLayout)}

Missing == [kind |-> "missing"]
ContextChoices ==
    [form : {Missing, TestForm},
     formset : {Missing, TestFormset},
     form_helper : {Missing, None} \cup FormHelpers,
     formset_helper : {Missing, None} \cup FormsetHelpers,
     MEDIA_URL : {Missing, PyStr("/media/")}]
Context(choice) ==
    [k \in {n \in DOMAIN choice : choice[n] # Missing} |-> choice[k]]

HelperTokens == {"form_helper", "formset_helper"}
TokenLists(tag, form) ==
    {<<tag>>, <<tag, form>>} \cup {<<tag, form, h>> : h \in HelperTokens}

Outcome(op, token, raised, response, template) ==
    [op |-> op, token |-> token, raised |-> raised, response |-> response,
     template |-> template]

Init ==
    /\ context \in {Context(c) : c \in ContextChoices}
    /\ form_html = <<>>
    /\ node = None
    /\ result = Outcome("", <<>>, "", None, "")

\* the compile function of a tag runs on the tokens of the tag
Tag_uni_form ==
    \E token \in TokenLists("uni_form", "form") :
        /\ node' = do_uni_form(token).node
        /\ result' = Outcome("do_uni_form", token, do_uni_form(token).raised,
                             None, "")
        /\ UNCHANGED <<context, form_html>>
Tag_uni_form_set ==
    \E token \in TokenLists("uni_form_set", "formset") :
        /\ node' = do_uni_form_set(token).node
        /\ result' = Outcome("do_uni_form_set", token,
                             do_uni_form_set(token).raised, None, "")
        /\ UNCHANGED <<context, form_html>>
Tag_uni_form_jquery ==
    \E token \in TokenLists("uni_form_jquery", "form") :
        /\ node' = uni_form_jquery(token).node
        /\ result' = Outcome("uni_form_jquery", token,
                             uni_form_jquery(token).raised, None, "")
        /\ UNCHANGED <<context, form_html>>

\* render of a node: get_render, then the node's template on its context
render(self, ctx, attached, template) ==
    LET c == get_render(self, ctx, attached)
    IN  Outcome(self.kind, <<>>, c.raised, c.response,
                IF c.raised = "" THEN template ELSE "")
UniFormNode_render ==
    /\ node.kind = "UniFormNode"
    /\ result' = render(node, context, form_html,
                        "uni_form/whole_uni_form.html")
    /\ form_html' = get_render(node, context, form_html).form_html
    /\ UNCHANGED <<context, node>>
UniFormsetNode_render ==
    /\ node.kind = "UniFormsetNode"
    /\ result' = render(node, context, form_html,
                        "uni_form/whole_uni_form_set.html")
    /\ form_html' = get_render(node, context, form_html).form_html
    /\ UNCHANGED <<context, node>>
UniFormJqueryNode_render ==
    /\ node.kind = "UniFormJqueryNode"
    /\ result' = render(node, context, form_html,
                        "uni_form/uni_form_jquery.html")
    /\ form_html' = get_render(node, context, form_html).form_html
    /\ UNCHANGED <<context, node>>

Tag_uni_form_setup ==
    /\ context' = uni_form_setup(context)
    /\ result' = Outcome("uni_form_setup", <<"uni_form_setup">>, "", context',
                         "uni_form/includes.html")
    /\ UNCHANGED <<form_html, node>>

Next ==
    \/ Tag_uni_form
    \/ Tag_uni_form_set
    \/ Tag_uni_form_jquery
    \/ UniFormNode_render
    \/ UniFormsetNode_render
    \/ UniFormJqueryNode_render
    \/ Tag_uni_form_setup

Spec == Init /\ [][Next]_vars

\* ------------------------------------------------------------ properties
\* what the current node's helper variable resolves to (None when there is
\* no node or the variable is not in the context)
Helper ==
    IF node # None /\ Resolvable(node.helper, context)
    THEN resolve(node.helper, context)
    ELSE None
CarriesToggle == Truthy(Helper) /\ "toggle_fields" \in DOMAIN get_attr(Helper)
HasLayout == Truthy(Helper) /\ Helper.layout # None
ToggleSet == IF CarriesToggle THEN Helper.toggle_fields ELSE {}
FormDirectives == {"UniFormNode", "UniFormJqueryNode"}
CompileOps == {"do_uni_form", "do_uni_form_set", "uni_form_jquery"}
\* the context holds exactly these variables
ContextHas(names) == DOMAIN context = names

\* C1: uni_form_set with a helper whose attributes carry 'toggle_fields'
\* always raises NotImplementedError, whatever the value of the key; uni_form
\* with the same helper succeeds, and its toggle fields are fields of the
\* form whose auto_id is in the toggle set.
C1_ToggleFieldsFormOnly ==
    /\ (result.op = "UniFormsetNode" /\ CarriesToggle)
            => result.raised = "NotImplementedError"
    /\ (result.op = "UniFormNode" /\ CarriesToggle /\ "form" \in DOMAIN context)
            => /\ result.raised = ""
               /\ \A i \in 1..Len(result.response.toggle_fields) :
                    LET f == result.response.toggle_fields[i]
                    IN  /\ f.auto_id \in Helper.toggle_fields
                        /\ \E j \in 1..Len(FieldNames) :
                                f = Fields(context["form"])[j]
C1_Witness ==
    /\ result.op = "UniFormsetNode"
    /\ CarriesToggle
    /\ Helper = FormHelper({"toggle_fields"}, {}, None)
    /\ ContextHas({"formset", "form_helper"})
    /\ result.raised = "NotImplementedError"

\* C2: for uni_form and uni_form_set the helper's form_id, form_class,
\* form_method and form_action reach the response context, and every one the
\* helper does not supply takes its default: 'POST', '', '', '', no inputs.
Supplied(attribute, default) ==
    IF Truthy(Helper) /\ attribute \in Helper.set
    THEN Helper[attribute] ELSE default
C2_HelperAttributes ==
    (result.op \in {"UniFormNode", "UniFormsetNode"} /\ result.raised = "")
        => /\ result.response.form_id = Supplied("form_id", "")
           /\ result.response.form_class = Supplied("form_class", "")
           /\ result.response.form_method = Supplied("form_method", "POST")
           /\ result.response.form_action = Supplied("form_action", "")
           /\ result.response.inputs = Supplied("inputs", <<>>)
C2_Witness ==
    /\ result.op = "UniFormsetNode"
    /\ result.raised = ""
    /\ result.response.form_id = "this-form-rocks"
    /\ result.response.form_class = "forms-that-rock"
    /\ result.response.form_method = "GET"
    /\ result.response.form_action = ""
    /\ result.response.inputs = <<>>
    /\ Helper.layout = None
    /\ ContextHas({"formset", "form_helper"})

\* C3: the helper argument is optional: a directive written with the form
\* (formset) argument alone is compiled into a node without an error.
C3_HelperOptional ==
    (result.op \in CompileOps /\ Len(result.token) = 2)
        => (result.raised = "" /\ node # None)

\* C4: after uni_form_set renders with a helper that has a layout, every
\* sub-form carries form_html, the helper's layout rendering of that very
\* sub-form; no other step attaches or changes a form_html, and the sub-forms
\* start without one.
C4_LayoutAttached ==
    (result.op = "UniFormsetNode" /\ result.raised = "" /\ HasLayout)
        => /\ DOMAIN form_html = 1..NumForms
           /\ \A i \in 1..NumForms :
                form_html[i] = render_layout(Helper, context["formset"].forms[i])
C4_OnlyLayoutAttaches ==
    form_html' # form_html
        => (result'.op = "UniFormsetNode" /\ result'.raised = "" /\ HasLayout)
\* C4: sub-forms start without form_html, a layout render attaches to each
\* its own rendering, and nothing else attaches or changes one.
C4_FormsetFormHtml ==
    /\ form_html = <<>>
    /\ []C4_LayoutAttached
    /\ [][C4_OnlyLayoutAttaches]_vars
C4_Witness ==
    /\ result.op = "UniFormsetNode"
    /\ result.raised = ""
    /\ HasLayout
    /\ DOMAIN form_html = 1..NumForms
    /\ form_html[1][1] = "<fieldset>"
    /\ form_html[1] # form_html[2]
    /\ Helper = FormHelper({}, {}, TestLayout)
    /\ ContextHas({"formset", "form_helper"})

\* C5: uni_form renders the layout exactly when a helper is supplied and has
\* a layout; otherwise form_html is the empty string; the resolved form is
\* passed under 'form'.
C5_FormHtml ==
    (result.op = "UniFormNode" /\ result.raised = "")
        => /\ result.response.form = context["form"]
           /\ result.response.form_html =
                IF HasLayout THEN render_layout(Helper, context["form"])
                ELSE <<>>
C5_Witness ==
    /\ result.op = "UniFormNode"
    /\ result.raised = ""
    /\ HasLayout
    /\ result.response.form_html # <<>>
    /\ Helper = FormHelper({}, {}, TestLayout)
    /\ ContextHas({"form", "form_helper"})

\* C6 as claimed: when the form (formset) variable of uni_form (uni_form_set)
\* is not in the context, the render raises the variable-resolution error,
\* with no response context and no template.
FormVariableMissing ==
    \/ result.op = "UniFormNode" /\ ~Resolvable(node.form, context)
    \/ result.op = "UniFormsetNode" /\ ~Resolvable(node.formset, context)
C6_MissingVariable ==
    FormVariableMissing
        => /\ result.raised = "VariableDoesNotExist"
           /\ result.response = None
           /\ result.template = ""
\* C6 amended: the same, except that uni_form_set with a helper carrying
\* 'toggle_fields' raises NotImplementedError before the formset variable is
\* looked up.
C6_MissingVariableAmended ==
    FormVariableMissing
        => /\ result.raised =
                IF result.op = "UniFormsetNode" /\ CarriesToggle
                THEN "NotImplementedError" ELSE "VariableDoesNotExist"
           /\ result.response = None
           /\ result.template = ""
C6_Witness ==
    /\ result.op = "UniFormsetNode"
    /\ ~Resolvable(node.formset, context)
    /\ Helper = FormHelper({}, {}, TestLayout)
    /\ ContextHas({"form_helper"})
    /\ result.raised = "VariableDoesNotExist"

\* C7: for the form directives toggle_fields is the form's fields whose
\* auto_id is in the toggle set, in the form's order; an absent or empty
\* toggle set gives the empty sequence.
InToggleSet(field) == field.auto_id \in ToggleSet
C7_ToggleFields ==
    (result.op \in FormDirectives /\ result.raised = "")
        => result.response.toggle_fields
                = SelectSeq(Fields(context["form"]), InToggleSet)
C7_Witness ==
    /\ result.op = "UniFormJqueryNode"
    /\ result.raised = ""
    /\ Len(result.response.toggle_fields) = 2
    /\ result.response.toggle_fields[1].auto_id = "id_is_company"
    /\ Helper = FormHelper({"toggle_fields"}, {"id_is_company", "id_email"}, None)
    /\ ContextHas({"form", "form_helper"})

\* C8: uni_form_setup leaves a MEDIA_URL of the context unchanged, sets an
\* absent one to the setting, and leaves every other key as it was.
C8_Step ==
    result'.op = "uni_form_setup"
        => /\ \A k \in DOMAIN context :
                k \in DOMAIN context' /\ context'[k] = context[k]
           /\ DOMAIN context' = DOMAIN context \cup {"MEDIA_URL"}
           /\ "MEDIA_URL" \notin DOMAIN context
                => context'["MEDIA_URL"] = settings_MEDIA_URL
\* C8: every uni_form_setup step keeps a present MEDIA_URL and every other
\* key, and sets an absent MEDIA_URL to the setting.
C8_MediaUrl == [][C8_Step]_vars
C8_Witness ==
    /\ result.op = "uni_form_setup"
    /\ ContextHas({"form", "MEDIA_URL"})
    /\ context["MEDIA_URL"] # settings_MEDIA_URL
    /\ node = None

\* C9 as claimed: after a uni_form_set render with no helper or a helper
\* without layout, no sub-form carries a form_html left by an earlier render.
C9_NothingPersists ==
    (result.op = "UniFormsetNode" /\ result.raised = "" /\ ~HasLayout)
        => form_html = <<>>
\* C9 amended: a form_html attached to a sub-form stays on it after the
\* render that produced it; only a later uni_form_set render with a helper
\* that has a layout replaces it, by that helper's rendering of the sub-form.
C9_Step ==
    \A i \in DOMAIN form_html :
        /\ i \in DOMAIN form_html'
        /\ form_html'[i] # form_html[i]
            => /\ result'.op = "UniFormsetNode"
               /\ HasLayout
               /\ form_html'[i]
                    = render_layout(Helper, context["formset"].forms[i])
\* C9 amended: no step removes a form_html, and only a layout render of
\* uni_form_set replaces one.
C9_FormHtmlPersists == [][C9_Step]_vars
C9_Witness ==
    /\ result.op = "UniFormsetNode"
    /\ result.raised = ""
    /\ ~HasLayout
    /\ DOMAIN form_html = 1..NumForms
    /\ Helper = None
    /\ ContextHas({"formset", "form_helper", "formset_helper"})

\* C10: uni_form_set rejects a helper carrying 'toggle_fields' before the
\* formset is resolved and before a sub-form is touched: the error is
\* NotImplementedError also when the formset variable is missing, and the
\* form_html attributes are as before, also when the helper has a layout.
C10_RejectedFirst ==
    (/\ result.op = "UniFormsetNode"
     /\ CarriesToggle
     /\ ~Resolvable(node.formset, context))
        => result.raised = "NotImplementedError"
C10_Untouched ==
    (result'.op = "UniFormsetNode" /\ result'.raised = "NotImplementedError")
        => form_html' = form_html
\* C10: the rejection comes before the formset lookup and leaves every
\* form_html as it was.
C10_RejectBeforeResolve == []C10_RejectedFirst /\ [][C10_Untouched]_vars
C10_Witness ==
    /\ result.op = "UniFormsetNode"
    /\ result.raised = "NotImplementedError"
    /\ HasLayout
    /\ DOMAIN form_html = 1..NumForms
    /\ form_html[1] # render_layout(Helper, context["formset"].forms[1])
    /\ Helper = FormHelper({"toggle_fields"}, {}, TestLayout)
    /\ ContextHas({"formset", "form_helper", "formset_helper"})

====
